---- MODULE Spec2Model ----
(***************************************************************************)
(* Model of src/src/compress.py: the .h5 directory watcher (H5Handler and  *)
(* main), the batch ("--once") branch, and the tree copy performed by      *)
(* compress_and_replace._recurse.                                          *)
(***************************************************************************)
EXTENDS Integers, Sequences, FiniteSets, TLC

VARIABLES
    once,             \* args.once
    fs,               \* the file system below workdir: path -> file
    queue,            \* the observer's event queue (events not yet dispatched)
    obs,              \* the observer (dispatch) thread
    stop_requested,   \* observer.stop() has been called
    last_event_time,  \* last_event_time[0]
    now,              \* time.time()
    mpc,              \* position of the main thread in main()
    idle,             \* the local "idle" of main's loop
    job,              \* the running on_created / compress_and_replace call
    todo,             \* batch branch: files of the current directory still to visit
    dirs,             \* batch branch: directories os.walk has not listed yet
    accepted,         \* paths whose creation event passed the filter of on_created
    log,              \* the lines printed about files so far, as <<tag, path>>
    src,              \* tree copy: the source container
    dst,              \* tree copy: the destination container
    visit,            \* tree copy: items visititems has still to deliver
    tpc,              \* tree copy: position
    compression       \* self.compression

vars == <<once, fs, queue, obs, stop_requested, last_event_time, now, mpc, idle,
          job, todo, dirs, accepted, log, src, dst, visit, tpc, compression>>

watchVars == <<once, fs, queue, obs, stop_requested, last_event_time, now, mpc,
               idle, job, todo, dirs, accepted, log>>

treeVars == <<src, dst, visit, tpc, compression>>

(***************************************************************************)
(* Bounds                                                                  *)
(***************************************************************************)
MaxSize == 2        \* largest size the external writer grows a file to
IdleTimeout == 1    \* args.idle_timeout, in ticks of the clock
MaxCreates == 2     \* number of files and directories the producer creates in a run
MaxTime == IdleTimeout + 1   \* the clock stops one tick past the threshold

(***************************************************************************)
(* File names are sequences of characters, so that str.endswith and        *)
(* str.startswith are computed, not assumed.                               *)
(***************************************************************************)
EndsWith(s, suffix) ==
    /\ Len(s) >= Len(suffix)
    /\ SubSeq(s, Len(s) - Len(suffix) + 1, Len(s)) = suffix

StartsWith(s, prefix) ==
    /\ Len(s) >= Len(prefix)
    /\ SubSeq(s, 1, Len(prefix)) = prefix

H5Suffix == <<".", "h", "5">>
TmpPrefix == <<"t", "m", "p">>

\* The directories below workdir: workdir itself ("w") and one subdirectory.
Dirs == <<"w", "s">>

\* Paths an external producer creates during a run.
FileA == [dir |-> "w", name |-> <<"a", ".", "h", "5">>]
FileB == [dir |-> "s", name |-> <<"b", ".", "h", "5">>]
FileT == [dir |-> "w", name |-> <<"t", "m", "p", "c", ".", "h", "5">>]
FileX == [dir |-> "w", name |-> <<"c", ".", "h", "5", "x">>]
DirD  == [dir |-> "w", name |-> <<"d", ".", "h", "5">>]

ExtFiles == {FileA, FileB, FileT, FileX}
ExtDirs == {DirD}
ExtPaths == ExtFiles \cup ExtDirs
\* The files whose size or contents the program reads.
DataFiles == {FileA, FileB}

\* tempfile.mkstemp(suffix=".h5", dir=dirname): default prefix "tmp", then
\* random characters, then the suffix.
RandomChars == {"1"}
MkstempName_no_prefix(r) == <<r>> \o H5Suffix

MkstempName(r) == TmpPrefix \o <<r>> \o H5Suffix
TmpPaths == {[dir |-> d, name |-> MkstempName(r)] : d \in {"w", "s"}, r \in RandomChars}

Paths == ExtPaths \cup TmpPaths
NoPath == [dir |-> "", name |-> <<>>]

\* A file: what it holds ("orig" the producer's data, "new" a complete
\* recompressed copy, "partial" an empty or incompletely written file).
NoFile == [kind |-> "none", st |-> "none", size |-> 0]
NoSize == -1

\* A call of on_created (or one round of the batch loop): its position, its
\* path, its temp file, is_stable's local size1 while is_stable runs, and what
\* is_stable returned last ("none" before its first return).
NoJob == [pc |-> "none", path |-> NoPath, tmp |-> NoPath, size1 |-> NoSize, stable |-> "none"]

Exists(p) == fs[p].kind \in {"file", "dir"}

\* The emitter thread queues an event only while the observer is scheduled
\* and running.
Emitting == mpc \in {"sleep", "compare", "idle_shutdown", "interrupt_shutdown"}

Emit(q, ev) == IF Emitting THEN Append(q, ev) ELSE q


CreatedEvent(p, isdir) == [kind |-> "created", src_path |-> p, is_directory |-> isdir]
MovedEvent_reported_as_created(p) ==
    [kind |-> "created", src_path |-> job.path, is_directory |-> FALSE]

\* The event of the rename of line 49: the temp file moved onto the original.
MovedEvent(p) == [kind |-> "moved", src_path |-> p, is_directory |-> FALSE]

(***************************************************************************)
(* Initial state: main() has parsed its arguments and built the handler    *)
(* (lines 98-109); nothing below workdir exists yet.                        *)
(***************************************************************************)
TreeIdle ==
    /\ src = {}
    /\ dst = {}
    /\ visit = <<>>
    /\ tpc = "off"
    /\ compression = "gzip"

Init ==
    /\ once \in BOOLEAN
    /\ fs = [p \in Paths |-> NoFile]
    /\ queue = <<>>
    /\ obs = "notstarted"
    /\ stop_requested = FALSE
    /\ last_event_time = 0
    /\ now = 0
    /\ mpc = "start"
    /\ idle = 0
    /\ job = NoJob
    /\ todo = <<>>
    /\ dirs = <<>>
    /\ accepted = {}
    /\ log = {}
    /\ TreeIdle

(***************************************************************************)
(* The environment: the external producer of files.                        *)
(***************************************************************************)
\* A producer creates a file (or a directory) and the emitter reports it.
ExtCreate(p) ==
    /\ p \in ExtPaths
    /\ fs[p].kind = "none"
    /\ Cardinality({q \in ExtPaths : fs[q].kind # "none"}) < MaxCreates
    /\ IF once THEN mpc \in {"start", "walk"} ELSE Emitting
    /\ fs' = [fs EXCEPT ![p] = [kind |-> IF p \in ExtDirs THEN "dir" ELSE "file",
                                st |-> "orig", size |-> 1]]
    /\ queue' = IF once THEN queue ELSE Emit(queue, CreatedEvent(p, p \in ExtDirs))
    /\ UNCHANGED <<once, obs, stop_requested, last_event_time, now, mpc, idle,
                   job, todo, dirs, accepted, log>>
    /\ UNCHANGED treeVars

\* The program can still read the file: it runs, its dispatch thread (in
\* watch mode) is alive, and it has not finished a job for the path.
MayStillRead(p) ==
    /\ mpc # "stopped"
    /\ obs \notin {"dead", "stopped"}
    /\ \A tag \in {"DONE", "ERROR", "TRACEBACK"} : <<tag, p>> \notin log

\* The size of a file is read by is_stable only: not once the job of the
\* path is past its probe.
MayStillProbe(p) ==
    /\ MayStillRead(p)
    /\ ~(job.path = p /\ job.pc \in {"recompress", "move", "copy_write"})

\* The producer is still writing: the file grows.
ExtWrite(p) ==
    /\ p \in DataFiles
    /\ fs[p].kind = "file"
    /\ fs[p].st = "orig"
    /\ fs[p].size < MaxSize
    /\ MayStillProbe(p)
    /\ fs' = [fs EXCEPT ![p].size = @ + 1]
    /\ UNCHANGED <<once, queue, obs, stop_requested, last_event_time, now, mpc, idle,
                   job, todo, dirs, accepted, log>>
    /\ UNCHANGED treeVars

\* Another process removes the file.
ExtDelete(p) ==
    /\ p \in DataFiles
    /\ fs[p].kind = "file"
    /\ fs[p].st = "orig"
    /\ MayStillRead(p)
    /\ fs' = [fs EXCEPT ![p] = [kind |-> "gone", st |-> "none", size |-> 0]]
    /\ UNCHANGED <<once, queue, obs, stop_requested, last_event_time, now, mpc, idle,
                   job, todo, dirs, accepted, log>>
    /\ UNCHANGED treeVars

(***************************************************************************)
(* H5Handler                                                               *)
(***************************************************************************)
\* os.path.getsize(path): the size, or NoSize when the call raises OSError.
getsize(p) == IF fs[p].kind = "file" THEN fs[p].size ELSE NoSize

is_stable_always(size1, size2) == TRUE

\* is_stable, line 26.
is_stable(size1, size2) == size1 = size2

on_created_accepts_any_prefix(event) ==
    /\ ~event.is_directory
    /\ EndsWith(event.src_path.name, H5Suffix)

\* The filter of on_created, lines 53-57: TRUE when the event goes on.
on_created_accepts(event) ==
    /\ ~event.is_directory
    /\ ~(~EndsWith(event.src_path.name, H5Suffix) \/ StartsWith(event.src_path.name, TmpPrefix))

\* The handler (or the batch loop) is back at its caller.
Return ==
    /\ job' = NoJob
    /\ obs' = IF once THEN obs ELSE "idle"

\* An exception leaves is_stable: on_created has no handler around the loop of
\* line 63, so it leaves on_created and ends the thread that called it.
RaiseFromProbe ==
    /\ job' = NoJob
    /\ obs' = "dead"
    /\ log' = log \cup {<<"TRACEBACK", job.path>>}

HandleCompressError_uncaught == RaiseFromProbe

\* except Exception as e: print("[ERROR] ..."), lines 68-69 and 120-121.
HandleCompressError ==
    /\ log' = log \cup {<<"ERROR", job.path>>}
    /\ Return

CanDispatch_while_handling == obs \in {"idle", "handling"}

\* The dispatch thread takes the next event only between two handler calls.
CanDispatch == obs = "idle"

mark_event_skipped == last_event_time

\* Line 60: what self.last_event_time[0] holds after the assignment.
mark_event == now

\* BaseObserver.run: take the next event and call the handler (lines 52-60).
DispatchEvent ==
    /\ CanDispatch
    /\ ~stop_requested
    /\ queue # <<>>
    /\ queue' = Tail(queue)
    /\ LET event == Head(queue) IN
         IF event.kind = "created" /\ on_created_accepts(event)
         THEN /\ last_event_time' = mark_event
              /\ accepted' = accepted \cup {event.src_path}
              /\ job' = [NoJob EXCEPT !.pc = "size1", !.path = event.src_path]
              /\ obs' = "handling"
         ELSE UNCHANGED <<last_event_time, accepted, job, obs>>
    /\ UNCHANGED <<once, fs, stop_requested, now, mpc, idle, todo, dirs, log>>
    /\ UNCHANGED treeVars

\* is_stable, line 23.
ProbeSize1 ==
    /\ job.pc = "size1"
    /\ IF getsize(job.path) = NoSize
       THEN RaiseFromProbe
       ELSE /\ job' = [job EXCEPT !.pc = "size2", !.size1 = getsize(job.path)]
            /\ UNCHANGED <<obs, log>>
    /\ UNCHANGED <<once, fs, queue, stop_requested, last_event_time, now, mpc, idle,
                   todo, dirs, accepted>>
    /\ UNCHANGED treeVars

\* is_stable, lines 24-26, and the loop of on_created, lines 63-65.
ProbeSize2 ==
    /\ job.pc = "size2"
    /\ IF getsize(job.path) = NoSize
       THEN RaiseFromProbe
       ELSE LET size2 == getsize(job.path) IN
            IF is_stable(job.size1, size2)
            THEN /\ job' = [job EXCEPT !.pc = "recompress", !.size1 = NoSize, !.stable = "yes"]
                 /\ UNCHANGED <<obs, log>>
            ELSE /\ job' = [job EXCEPT !.pc = "size1", !.size1 = NoSize, !.stable = "no"]
                 /\ UNCHANGED <<obs, log>>
    /\ UNCHANGED <<once, fs, queue, stop_requested, last_event_time, now, mpc, idle,
                   todo, dirs, accepted>>
    /\ UNCHANGED treeVars


(***************************************************************************)
(* compress_and_replace                                                    *)
(***************************************************************************)
FailedTemp_removed == [kind |-> "none", st |-> "none", size |-> 0]

\* What is at tmp_path when lines 36-46 raise: the file mkstemp created, with
\* whatever was written to it; no code removes it.
FailedTemp == [kind |-> "file", st |-> "partial", size |-> 0]

\* Lines 30-46.  tempfile.mkstemp creates an empty file next to src_path (or
\* raises); h5py opens the source for reading and the temp file for writing
\* (or raises); every item is copied and both files are closed (or one of
\* the calls raises).  A failure after mkstemp leaves an incomplete temp file.
Recompress ==
    /\ job.pc = "recompress"
    /\ \/ /\ HandleCompressError
          /\ UNCHANGED <<fs, queue>>
       \/ \E r \in RandomChars :
            LET tmp_path == [dir |-> job.path.dir, name |-> MkstempName(r)] IN
            /\ ~Exists(tmp_path)
            /\ queue' = Emit(queue, CreatedEvent(tmp_path, FALSE))
            /\ \/ /\ fs[job.path].kind = "file"
                  /\ fs' = [fs EXCEPT ![tmp_path] = [kind |-> "file", st |-> "new", size |-> 1]]
                  /\ job' = [job EXCEPT !.pc = "move", !.tmp = tmp_path]
                  /\ log' = log \cup {<<"INFO", job.path>>}
                  /\ UNCHANGED obs
               \/ /\ fs' = [fs EXCEPT ![tmp_path] = FailedTemp]
                  /\ log' = log \cup {<<"INFO", job.path>>, <<"ERROR", job.path>>}
                  /\ Return
    /\ UNCHANGED <<once, stop_requested, last_event_time, now, mpc, idle, todo, dirs, accepted>>
    /\ UNCHANGED treeVars

\* Line 49, shutil.move: os.rename(tmp_path, src_path) replaces the original in
\* one step; when os.rename raises OSError, shutil.move goes on to copy the
\* temp file over the original (copy2 opens src_path with "wb", which
\* truncates it, or raises) and to unlink the temp file.
Move ==
    /\ job.pc = "move"
    /\ \/ /\ fs' = [fs EXCEPT ![job.path] = fs[job.tmp], ![job.tmp] = NoFile]
          /\ queue' = Emit(queue, MovedEvent(job.tmp))
          /\ log' = log \cup {<<"DONE", job.path>>}
          /\ Return
       \/ /\ fs' = [fs EXCEPT ![job.path] = [kind |-> "file", st |-> "partial", size |-> 0]]
          /\ job' = [job EXCEPT !.pc = "copy_write"]
          /\ UNCHANGED <<queue, obs, log>>
       \/ /\ HandleCompressError
          /\ UNCHANGED <<fs, queue>>
    /\ UNCHANGED <<once, stop_requested, last_event_time, now, mpc, idle, todo, dirs, accepted>>
    /\ UNCHANGED treeVars

\* copy2 writes the temp file's bytes into the original path; then
\* os.unlink(tmp_path) and line 50.
CopyWrite ==
    /\ job.pc = "copy_write"
    /\ \/ /\ fs' = [fs EXCEPT ![job.path] = fs[job.tmp], ![job.tmp] = NoFile]
          /\ log' = log \cup {<<"DONE", job.path>>}
          /\ Return
       \/ /\ HandleCompressError
          /\ UNCHANGED fs
    /\ UNCHANGED <<once, queue, stop_requested, last_event_time, now, mpc, idle,
                   todo, dirs, accepted>>
    /\ UNCHANGED treeVars

(***************************************************************************)
(* main, watch mode (lines 124-141)                                        *)
(***************************************************************************)
\* Lines 125-128.
StartWatch ==
    /\ mpc = "start"
    /\ ~once
    /\ obs' = "idle"
    /\ mpc' = "sleep"
    /\ UNCHANGED <<once, fs, queue, stop_requested, last_event_time, now, idle,
                   job, todo, dirs, accepted, log>>
    /\ UNCHANGED treeVars

\* time.sleep(1), line 132: the clock is at least one tick further when the
\* sleep returns (it stops at MaxTime).
AfterSleep(t) == IF t >= MaxTime THEN {MaxTime} ELSE (t + 1)..MaxTime

\* Lines 132-133.
ComputeIdle ==
    /\ mpc = "sleep"
    /\ \E t \in AfterSleep(now) :
          /\ now' = t
          /\ idle' = t - last_event_time
    /\ mpc' = "compare"
    /\ UNCHANGED <<once, fs, queue, obs, stop_requested, last_event_time,
                   job, todo, dirs, accepted, log>>
    /\ UNCHANGED treeVars

IdleExceeded_inclusive(i) == i >= IdleTimeout

\* Line 134.
IdleExceeded(i) == i > IdleTimeout

\* Lines 134-136.
CompareIdle ==
    /\ mpc = "compare"
    /\ IF IdleExceeded(idle)
       THEN mpc' = "idle_shutdown"
       ELSE mpc' = "sleep"
    /\ idle' = 0      \* not read again before line 133 assigns it
    /\ UNCHANGED <<once, fs, queue, obs, stop_requested, last_event_time, now,
                   job, todo, dirs, accepted, log>>
    /\ UNCHANGED treeVars

KeyboardInterrupt_no_finally ==
    /\ mpc \in {"sleep", "compare"}
    /\ mpc' = "stopped"
    /\ idle' = 0
    /\ UNCHANGED <<once, fs, queue, obs, stop_requested, last_event_time, now,
                   job, todo, dirs, accepted, log>>
    /\ UNCHANGED treeVars

\* Lines 137-138: the operator interrupts the loop.
KeyboardInterrupt ==
    /\ mpc \in {"sleep", "compare"}
    /\ mpc' = "interrupt_shutdown"
    /\ idle' = 0
    /\ UNCHANGED <<once, fs, queue, obs, stop_requested, last_event_time, now,
                   job, todo, dirs, accepted, log>>
    /\ UNCHANGED treeVars

ObserverStop_join_only ==
    /\ mpc \in {"idle_shutdown", "interrupt_shutdown"}
    /\ mpc' = "join"
    /\ UNCHANGED <<once, fs, queue, obs, stop_requested, last_event_time, now, idle,
                   job, todo, dirs, accepted, log>>
    /\ UNCHANGED treeVars

\* Line 140.
ObserverStop ==
    /\ mpc \in {"idle_shutdown", "interrupt_shutdown"}
    /\ stop_requested' = TRUE
    /\ mpc' = "join"
    /\ UNCHANGED <<once, fs, queue, obs, last_event_time, now, idle,
                   job, todo, dirs, accepted, log>>
    /\ UNCHANGED treeVars

\* The dispatch thread leaves its loop once stop() was called.
ObserverExit ==
    /\ obs = "idle"
    /\ stop_requested
    /\ obs' = "stopped"
    /\ UNCHANGED <<once, fs, queue, stop_requested, last_event_time, now, mpc, idle,
                   job, todo, dirs, accepted, log>>
    /\ UNCHANGED treeVars

ThreadEnded_no_wait == TRUE

\* Line 141: join() returns when the dispatch thread has ended.
ThreadEnded == obs \in {"stopped", "dead"}

ObserverJoin ==
    /\ mpc = "join"
    /\ ThreadEnded
    /\ mpc' = "stopped"
    /\ UNCHANGED <<once, fs, queue, obs, stop_requested, last_event_time, now, idle,
                   job, todo, dirs, accepted, log>>
    /\ UNCHANGED treeVars


(***************************************************************************)
(* main, batch branch (lines 111-122)                                      *)
(***************************************************************************)
\* The order in which a directory listing delivers its entries.
ScanOrder == <<FileA, FileT, FileX, [dir |-> "w", name |-> MkstempName("1")],
               FileB, [dir |-> "s", name |-> MkstempName("1")]>>

IsFileIn(d, p) == p.dir = d /\ fs[p].kind = "file"

\* os.walk yields the file names of one directory, as listed when it gets there.
ListDir(d) == SelectSeq(ScanOrder, LAMBDA p : IsFileIn(d, p))

\* Lines 115-116: TRUE when the file is not skipped.
walk_accepts_any_prefix(fname) == EndsWith(fname, H5Suffix)

walk_accepts(fname) ==
    ~(~EndsWith(fname, H5Suffix) \/ StartsWith(fname, TmpPrefix))

\* Line 112.
StartOnce ==
    /\ mpc = "start"
    /\ once
    /\ mpc' = "walk"
    /\ dirs' = Dirs
    /\ UNCHANGED <<once, fs, queue, obs, stop_requested, last_event_time, now, idle,
                   job, todo, accepted, log>>
    /\ UNCHANGED treeVars

\* Line 113: the next directory of the walk.
WalkList ==
    /\ mpc = "walk"
    /\ job.pc = "none"
    /\ todo = <<>>
    /\ dirs # <<>>
    /\ todo' = ListDir(Head(dirs))
    /\ dirs' = Tail(dirs)
    /\ UNCHANGED <<once, fs, queue, obs, stop_requested, last_event_time, now, mpc, idle,
                   job, accepted, log>>
    /\ UNCHANGED treeVars

\* Lines 114-119: the next file of the directory.
WalkNext ==
    /\ mpc = "walk"
    /\ job.pc = "none"
    /\ todo # <<>>
    /\ todo' = Tail(todo)
    /\ IF walk_accepts(Head(todo).name)
       THEN job' = [NoJob EXCEPT !.pc = "recompress", !.path = Head(todo)]
       ELSE UNCHANGED job
    /\ UNCHANGED <<once, fs, queue, obs, stop_requested, last_event_time, now, mpc, idle,
                   dirs, accepted, log>>
    /\ UNCHANGED treeVars

\* Line 122.
WalkDone ==
    /\ mpc = "walk"
    /\ job.pc = "none"
    /\ todo = <<>>
    /\ dirs = <<>>
    /\ mpc' = "stopped"
    /\ UNCHANGED <<once, fs, queue, obs, stop_requested, last_event_time, now, idle,
                   job, todo, dirs, accepted, log>>
    /\ UNCHANGED treeVars

(***************************************************************************)
(* The tree copy of compress_and_replace (lines 36-46).  A container is a  *)
(* set of items [name, type, data, compression]; a name is the sequence of *)
(* the link names from the root ("g/d" is <<"g", "d">>).                   *)
(***************************************************************************)
LinkNames == <<"d", "g">>      \* in the order of the name index
DataValues == {0, 1}
NoData == -1
compression_level == 4         \* --level, line 91

Link == {LinkNames[i] : i \in 1..Len(LinkNames)}
\* Items directly below the root and one level further down.
ItemNames == [1..1 -> Link] \cup [1..2 -> Link]

Parent(name) == SubSeq(name, 1, Len(name) - 1)

GroupItem(name) == [name |-> name, type |-> "group", data |-> NoData, compression |-> "none"]
SourceDataset(name, data) == [name |-> name, type |-> "dataset", data |-> data, compression |-> "source"]

SourceItems == {GroupItem(n) : n \in ItemNames}
                  \cup {SourceDataset(n, v) : n \in ItemNames, v \in DataValues}

NamesOf(tree) == {it.name : it \in tree}

\* A container file: one item per name, every item below the root lies in a group.
IsTree(tree) ==
    /\ \A a, b \in tree : a.name = b.name => a = b
    /\ \A it \in tree : Len(it.name) > 1 =>
           \E par \in tree : par.name = Parent(it.name) /\ par.type = "group"

\* The containers a producer may have written.
TopChoices(l) ==
    {{}} \cup {{SourceDataset(<<l>>, v)} : v \in DataValues}
         \cup {{GroupItem(<<l>>)} \cup kids :
                 kids \in {k \in SUBSET {it \in SourceItems : Len(it.name) = 2 /\ it.name[1] = l} :
                              \A a, b \in k : a.name = b.name => a = b}}

SourceTrees == {a \cup b : a \in TopChoices("d"), b \in TopChoices("g")}

\* Position of a link name in the name index.
Rank(l) == CHOOSE i \in 1..Len(LinkNames) : LinkNames[i] = l

\* n1 is visited before n2: a group before its members, members by name.
RECURSIVE Before(_, _)
Before(n1, n2) ==
    IF n1 = <<>> THEN n2 # <<>>
    ELSE IF n2 = <<>> THEN FALSE
    ELSE IF Head(n1) # Head(n2) THEN Rank(Head(n1)) < Rank(Head(n2))
    ELSE Before(Tail(n1), Tail(n2))

\* src.visititems: every item below the root once, in the order above.
RECURSIVE visititems(_)
visititems(tree) ==
    IF tree = {} THEN <<>>
    ELSE LET first == CHOOSE it \in tree : \A other \in tree \ {it} : Before(it.name, other.name)
         IN <<first>> \o visititems(tree \ {first})

\* Lines 40-42.
kwargs == IF compression = "gzip"
          THEN [compression |-> compression, compression_opts |-> compression_level]
          ELSE [compression |-> compression, compression_opts |-> NoData]

\* The groups h5py creates on the way to a new link.
MissingGroups(tree, name) ==
    {GroupItem(SubSeq(name, 1, k)) : k \in {j \in 1..(Len(name) - 1) : SubSeq(name, 1, j) \notin NamesOf(tree)}}

\* A link can be created when its name is free and it does not pass through a dataset.
CanCreate(tree, name) ==
    /\ name \notin NamesOf(tree)
    /\ \A it \in tree : it.type = "dataset" => ~StartsWith(name, it.name)

\* dst.create_dataset(name, data=data, **kwargs), line 43.
create_dataset(tree, name, data, kw) ==
    tree \cup MissingGroups(tree, name)
         \cup {[name |-> name, type |-> "dataset", data |-> data, compression |-> kw.compression]}

\* dst.create_group(name), line 45.
create_group(tree, name) ==
    tree \cup MissingGroups(tree, name) \cup {GroupItem(name)}

recurse_groups_only(tree, obj) == create_group(tree, obj.name)

\* _recurse(name, obj), lines 37-45: the destination after the call.
recurse(tree, obj) ==
    IF obj.type = "dataset"
    THEN create_dataset(tree, obj.name, obj.data, kwargs)
    ELSE create_group(tree, obj.name)

WatchIdle ==
    /\ once = FALSE
    /\ fs = [p \in Paths |-> NoFile]
    /\ queue = <<>>
    /\ obs = "notstarted"
    /\ stop_requested = FALSE
    /\ last_event_time = 0
    /\ now = 0
    /\ mpc = "start"
    /\ idle = 0
    /\ job = NoJob
    /\ todo = <<>>
    /\ dirs = <<>>
    /\ accepted = {}
    /\ log = {}

TreeInit ==
    /\ WatchIdle
    /\ src \in SourceTrees
    /\ dst = {}
    /\ visit = <<>>
    /\ tpc = "closed"
    /\ compression \in {"gzip", "lzf", "None"}

\* Line 36: both files are open, the destination is empty; line 46 starts the walk.
TreeOpen ==
    /\ tpc = "closed"
    /\ tpc' = "visiting"
    /\ dst' = {}
    /\ visit' = visititems(src)
    /\ UNCHANGED <<src, compression>>
    /\ UNCHANGED watchVars

\* One call of _recurse; an exception ends compress_and_replace.
TreeRecurse ==
    /\ tpc = "visiting"
    /\ visit # <<>>
    /\ IF CanCreate(dst, Head(visit).name)
       THEN /\ dst' = recurse(dst, Head(visit))
            /\ visit' = Tail(visit)
            /\ UNCHANGED tpc
       ELSE /\ tpc' = "failed"
            /\ UNCHANGED <<dst, visit>>
    /\ UNCHANGED <<src, compression>>
    /\ UNCHANGED watchVars

\* Reading or writing an item fails (line 39 or 43 raises).
TreeFail ==
    /\ tpc = "visiting"
    /\ visit # <<>>
    /\ tpc' = "failed"
    /\ UNCHANGED <<src, dst, visit, compression>>
    /\ UNCHANGED watchVars

\* The walk is over: both files are closed and line 49 publishes dst.
TreePublish ==
    /\ tpc = "visiting"
    /\ visit = <<>>
    /\ tpc' = "published"
    /\ UNCHANGED <<src, dst, visit, compression>>
    /\ UNCHANGED watchVars

TreeNext ==
    \/ TreeOpen
    \/ TreeRecurse
    \/ TreeFail
    \/ TreePublish

TreeSpec == TreeInit /\ [][TreeNext]_vars

(***************************************************************************)
(* The program                                                             *)
(***************************************************************************)
Next ==
    \/ \E p \in ExtPaths : ExtCreate(p)
    \/ \E p \in DataFiles : ExtWrite(p)
    \/ \E p \in DataFiles : ExtDelete(p)
    \/ DispatchEvent
    \/ ProbeSize1
    \/ ProbeSize2
    \/ Recompress
    \/ Move
    \/ CopyWrite
    \/ StartWatch
    \/ ComputeIdle
    \/ CompareIdle
    \/ KeyboardInterrupt
    \/ ObserverStop
    \/ ObserverExit
    \/ ObserverJoin
    \/ StartOnce
    \/ WalkList
    \/ WalkNext
    \/ WalkDone

Spec == Init /\ [][Next]_vars

\* The main thread and the observer's dispatch thread are threads of a running
\* process: each takes its next step when it has one.  The producer and the
\* operator owe the program nothing.
Fairness ==
    /\ WF_vars(StartWatch)
    /\ WF_vars(ComputeIdle)
    /\ WF_vars(CompareIdle)
    /\ WF_vars(ObserverStop)
    /\ WF_vars(ObserverJoin)
    /\ WF_vars(DispatchEvent)
    /\ WF_vars(ProbeSize1)
    /\ WF_vars(ProbeSize2)
    /\ WF_vars(Recompress)
    /\ WF_vars(Move)
    /\ WF_vars(CopyWrite)
    /\ WF_vars(ObserverExit)
    /\ WF_vars(StartOnce)
    /\ WF_vars(WalkList)
    /\ WF_vars(WalkNext)
    /\ WF_vars(WalkDone)

FairSpec == Spec /\ Fairness

\* The runs of the watcher in which no candidate is accepted and the operator
\* does not interrupt: the steps of Next, in watch mode, that leave accepted
\* empty, other than KeyboardInterrupt.  A candidate may be created and stay
\* pending; the fairness of DispatchEvent then holds only of the runs that
\* stop the observer before the event is taken.
IdleInit == Init /\ ~once

IdleNext ==
    \/ \E p \in ExtPaths : ExtCreate(p)
    \/ \E p \in DataFiles : ExtWrite(p)
    \/ \E p \in DataFiles : ExtDelete(p)
    \/ DispatchEvent /\ accepted' = {}
    \/ StartWatch
    \/ ComputeIdle
    \/ CompareIdle
    \/ ObserverStop
    \/ ObserverExit
    \/ ObserverJoin

IdleSpec == IdleInit /\ [][IdleNext]_vars /\ Fairness

TypeOK ==
    /\ once \in BOOLEAN
    /\ obs \in {"notstarted", "idle", "handling", "dead", "stopped"}
    /\ mpc \in {"start", "sleep", "compare", "idle_shutdown", "interrupt_shutdown",
                "join", "walk", "stopped"}
    /\ job.pc \in {"none", "size1", "size2", "recompress", "move", "copy_write"}
    /\ now \in 0..MaxTime
    /\ last_event_time \in 0..MaxTime


(***************************************************************************)
(* Properties                                                              *)
(***************************************************************************)
ProbePcs == {"size1", "size2"}
CompressPcs == {"recompress", "move", "copy_write"}

\* C1: a file that vanishes during stability polling costs only its own job:
\* the dispatch thread of the watcher survives and goes on to later events.
C1_ProbeFailureContained == obs # "dead"

\* C2: a job that fails in the recompress or publish step reports the error
\* for its path and returns normally: the dispatch thread (or the batch loop)
\* is ready for the next file and nothing that was pending is lost.
C2_CompressErrorContained ==
    [][(job.pc \in CompressPcs /\ job'.pc = "none" /\ <<"DONE", job.path>> \notin log')
          => /\ <<"ERROR", job.path>> \in log'
             /\ IF once THEN mpc' = "walk" ELSE obs' = "idle"
             /\ Len(queue') >= Len(queue)
             /\ SubSeq(queue', 1, Len(queue)) = queue
             /\ todo' = todo
             /\ dirs' = dirs]_vars

\* a.h5 failed in compress_and_replace and the later b.h5 is being processed.
C2_Witness ==
    /\ ~once
    /\ <<"ERROR", FileA>> \in log
    /\ job.path = FileB
    /\ job.pc \in CompressPcs

C4_IdleShutdown ==
    [][/\ (accepted' # accepted) => (last_event_time' = now)
       /\ (last_event_time' # last_event_time) => (accepted' # accepted)
       /\ (mpc = "sleep" /\ mpc' = "compare") => (idle' = now' - last_event_time)
       /\ (mpc = "compare" /\ mpc' = "idle_shutdown") => (idle > IdleTimeout)
       /\ (mpc = "compare" /\ mpc' = "sleep") => (idle <= IdleTimeout)
       /\ (mpc # "idle_shutdown" /\ mpc' = "idle_shutdown") => (mpc = "compare")]_vars

\* Idle shutdown is signalled after a file had been accepted.
C4_Witness ==
    /\ mpc = "idle_shutdown"
    /\ accepted # {}
    /\ now - last_event_time > IdleTimeout

AcceptedBy(event) == event.kind = "created" /\ on_created_accepts(event)

\* C6 as stated: while a job is in its stability wait, the dispatcher is free
\* to take a pending creation event of another candidate.
C6_DispatchDuringStabilityWait ==
    (/\ job.pc \in ProbePcs
     /\ ~stop_requested
     /\ queue # <<>>
     /\ AcceptedBy(Head(queue))
     /\ Head(queue).src_path # job.path) => CanDispatch

\* C6 amended: jobs run on the dispatch thread: while a job is in flight no
\* event leaves the queue and none is accepted; an event is accepted only
\* when no job is in flight.
C6_DispatchWaitsForJob ==
    [][/\ (job.pc # "none") => (Len(queue') >= Len(queue) /\ accepted' = accepted)
       /\ (accepted' # accepted) => (job.pc = "none" /\ obs = "idle")]_vars

\* b.h5 is pending while the job of a.h5 is in its stability wait.
C6_Witness ==
    /\ job.pc \in ProbePcs
    /\ job.path = FileA
    /\ queue # <<>>
    /\ Head(queue) = CreatedEvent(FileB, FALSE)

HasExtension(n) ==
    /\ Len(n) >= 3
    /\ n[Len(n) - 2] = "."
    /\ n[Len(n) - 1] = "h"
    /\ n[Len(n)] = "5"

HasTempPrefix(n) ==
    /\ Len(n) >= 3
    /\ n[1] = "t"
    /\ n[2] = "m"
    /\ n[3] = "p"

IsCandidate(event) ==
    /\ event.kind = "created"
    /\ ~event.is_directory
    /\ HasExtension(event.src_path.name)
    /\ ~HasTempPrefix(event.src_path.name)

Touched(p) ==
    \/ p \in accepted
    \/ job.path = p
    \/ \E tag \in {"INFO", "DONE", "ERROR", "TRACEBACK"} : <<tag, p>> \in log

\* C7: an event taken from the queue is accepted exactly when it is a
\* creation event, not of a directory, whose file name ends with ".h5" and
\* does not start with "tmp"; a path that fails the test is never probed,
\* recompressed or published.
C7_Filter ==
    /\ [][(Len(queue') < Len(queue)) =>
            /\ IsCandidate(Head(queue)) <=> (job'.path = Head(queue).src_path /\ job'.pc = "size1")
            /\ IsCandidate(Head(queue)) <=> (accepted' = accepted \cup {Head(queue).src_path}
                                             /\ accepted' # accepted)]_vars
    /\ [](\A p \in Paths :
            (p \in ExtDirs \/ ~HasExtension(p.name) \/ HasTempPrefix(p.name)) => ~Touched(p))

\* a.h5 was accepted; tmpc.h5 was created and its event dropped.
C7_Witness ==
    /\ ~once
    /\ fs[FileT].kind = "file"
    /\ FileA \in accepted
    /\ queue = <<>>

\* C8: the original path never holds an incomplete file.
C8_OriginalNeverPartial ==
    \A p \in DataFiles : fs[p].st # "partial"

\* C9: after a failed job the original file is as the producer left it.
C9_FailedJobLeavesOriginal ==
    \A p \in DataFiles :
        (<<"ERROR", p>> \in log \/ <<"TRACEBACK", p>> \in log)
            => fs[p].st \in {"orig", "none"}

GroupPaths(tree) == {it.name : it \in {x \in tree : x.type = "group"}}
DatasetPaths(tree) == {it.name : it \in {x \in tree : x.type = "dataset"}}
DataAt(tree, name) == (CHOOSE it \in tree : it.name = name).data
CompressionAt(tree, name) == (CHOOSE it \in tree : it.name = name).compression

\* C10: when the copy succeeds the published tree has the group paths and
\* the dataset paths of the source, every dataset holds the source's data,
\* and only the compression setting is new.
C10_TreeIsomorphic ==
    tpc = "published" =>
        /\ IsTree(dst)
        /\ GroupPaths(dst) = GroupPaths(src)
        /\ DatasetPaths(dst) = DatasetPaths(src)
        /\ \A n \in DatasetPaths(src) :
              /\ DataAt(dst, n) = DataAt(src, n)
              /\ CompressionAt(dst, n) = compression

\* A published copy of a tree with an empty group, a nested group and
\* datasets at both levels.
C10_Witness ==
    /\ tpc = "published"
    /\ GroupPaths(src) = {<<"g">>, <<"g", "g">>}
    /\ DatasetPaths(src) = {<<"d">>, <<"g", "d">>}
    /\ DataAt(src, <<"d">>) # DataAt(src, <<"g", "d">>)

TimestampFrameStep ==
    /\ (Len(queue') < Len(queue) /\ IsCandidate(Head(queue)))
         => /\ last_event_time' = now
            /\ job.pc = "none"
            /\ job'.pc = "size1"
            /\ job'.size1 = NoSize
    /\ ~(Len(queue') < Len(queue) /\ IsCandidate(Head(queue)))
         => last_event_time' = last_event_time

\* C11: the timestamp is set to the current time by the step that accepts an
\* event, which is the step that dispatches it and comes before the first
\* size read of the job; no other step (a rejected event, a job that completes
\* or fails, the main loop) changes it.
C11_TimestampFrame == [][TimestampFrameStep]_vars

\* A file accepted after the clock had advanced: the timestamp is the time
\* of the dispatch and the job has not read a size yet.
C11_Witness ==
    /\ job.pc = "size1"
    /\ job.stable = "none"
    /\ now > 0
    /\ last_event_time = now

ShutdownSignalled == mpc \in {"idle_shutdown", "interrupt_shutdown", "join", "stopped"}

NoNewJob ==
    /\ accepted' = accepted
    /\ last_event_time' = last_event_time
    /\ (job.pc = "none" => job'.pc = "none")

\* C12 as stated: from the moment the main loop decides to shut down (idle
\* timeout or interrupt) no event is accepted: no job starts and the
\* timestamp stays.
C12_NoAcceptAfterSignal ==
    [][(~once /\ ShutdownSignalled) => NoNewJob]_vars

\* C12 amended: from the moment observer.stop() has been called no event
\* leaves the queue, no job starts and the timestamp stays.
C12_NoAcceptAfterStop ==
    [][(~once /\ mpc \in {"join", "stopped"})
          => (NoNewJob /\ Len(queue') >= Len(queue))]_vars

\* The observer was stopped while the creation event of a candidate was
\* still pending behind a job that has since returned.
C12_Witness ==
    /\ mpc \in {"join", "stopped"}
    /\ job.pc = "none"
    /\ obs = "stopped"
    /\ queue # <<>>
    /\ IsCandidate(Head(queue))

RunningPcs == {"sleep", "compare"}

ShutdownPathStep ==
    /\ (mpc \in RunningPcs)
         => mpc' \in RunningPcs \cup {"idle_shutdown", "interrupt_shutdown"}
    /\ (mpc \in {"idle_shutdown", "interrupt_shutdown"})
         => \/ mpc' = mpc
            \/ mpc' = "join" /\ stop_requested'
    /\ (mpc = "join") => (mpc' \in {"join", "stopped"} /\ stop_requested)
    /\ (mpc = "join" /\ mpc' = "stopped") => obs \in {"stopped", "dead"}
    /\ (~once /\ mpc = "stopped") => mpc' = "stopped"
    /\ (mpc' = "interrupt_shutdown" /\ mpc # "interrupt_shutdown")
         => mpc \in RunningPcs

\* C13: main leaves Running only for Idle-Timeout-Shutdown or
\* Interrupt-Shutdown; an interrupt is taken in Running whatever the idle
\* time is; both shutdown states go on to observer.stop() and then to
\* observer.join(), and from there only to Stopped, which is final.
C13_ShutdownPath ==
    /\ [][ShutdownPathStep]_vars
    /\ [](mpc \in RunningPcs => ENABLED KeyboardInterrupt)

\* The operator interrupted a watcher that had just accepted a file: the idle
\* time is below the threshold and the process has stopped after the job.
C13_Witness ==
    /\ mpc = "stopped"
    /\ ~once
    /\ stop_requested
    /\ accepted # {}
    /\ now - last_event_time <= IdleTimeout
    /\ now > 0

\* C14: in watch mode, when no candidate is ever accepted (and the operator
\* does not interrupt), the main loop eventually signals idle shutdown, with
\* the idle time above the threshold, and the process then eventually stops.
C14_IdleShutdownTerminates ==
    (~once /\ [](accepted = {}) /\ [](mpc # "interrupt_shutdown"))
        => <>(/\ mpc = "idle_shutdown"
              /\ now - last_event_time > IdleTimeout
              /\ <>(mpc = "stopped" /\ obs = "stopped"))

\* The process has stopped on idle timeout in a run whose only events, of a
\* directory and of a file with the temp prefix, were dispatched and rejected.
C14_Witness ==
    /\ mpc = "stopped"
    /\ obs = "stopped"
    /\ accepted = {}
    /\ now - last_event_time > IdleTimeout
    /\ fs[FileT].kind = "file"
    /\ fs[DirD].kind = "dir"
    /\ queue = <<>>

JobTemps == Paths \ ExtPaths

\* C15: every temp file a job creates lies in the directory of the job's
\* source file, its name starts with "tmp" and ends with ".h5", and the
\* filter rejects its creation event: it is never accepted or processed.
C15_TempFilePlacement ==
    /\ \A t \in JobTemps :
          fs[t].kind = "file" =>
            /\ HasTempPrefix(t.name)
            /\ HasExtension(t.name)
            /\ ~IsCandidate(CreatedEvent(t, FALSE))
            /\ ~Touched(t)
            /\ \E q \in DataFiles :
                  /\ q.dir = t.dir
                  /\ \/ job.path = q /\ job.tmp = t /\ job.pc \in {"move", "copy_write"}
                     \/ <<"ERROR", q>> \in log
    /\ job.pc \in {"move", "copy_write"} =>
          /\ job.tmp \in JobTemps
          /\ job.tmp.dir = job.path.dir
          /\ fs[job.tmp].kind = "file"

\* The job of s/b.h5 has written its temp file, whose creation event is the
\* next one the watcher will see.
C15_Witness ==
    /\ ~once
    /\ job.pc = "move"
    /\ job.path = FileB
    /\ job.tmp.dir = "s"
    /\ queue # <<>>
    /\ Head(queue) = CreatedEvent(job.tmp, FALSE)

Matching(n) == HasExtension(n) /\ ~HasTempPrefix(n)

BatchStep ==
    /\ (todo = <<>> /\ todo' # <<>>) =>
          /\ dirs # <<>> /\ dirs' = Tail(dirs)
          /\ {todo'[i] : i \in 1..Len(todo')}
                = {p \in Paths : p.dir = Head(dirs) /\ fs[p].kind = "file"}
          /\ Len(todo') = Cardinality({todo'[i] : i \in 1..Len(todo')})
    /\ (dirs' # dirs) => (todo = <<>> /\ job.pc = "none")
    /\ (todo # <<>> /\ todo' # todo) =>
          /\ todo' = Tail(todo)
          /\ job.pc = "none"
          /\ ~Touched(Head(todo))
          /\ IF Matching(Head(todo).name)
             THEN job'.pc = "recompress" /\ job'.path = Head(todo)
             ELSE job'.pc = "none"
    /\ (job.pc = "none" /\ job'.pc # "none") => (todo # <<>> /\ job'.path = Head(todo))
    /\ (job.pc # "none" /\ job'.pc = "none") =>
          /\ todo' = todo /\ dirs' = dirs /\ mpc' = "walk"
          /\ <<"DONE", job.path>> \in log' \/ <<"ERROR", job.path>> \in log'
    /\ (mpc = "walk" /\ mpc' = "stopped") => (todo = <<>> /\ dirs = <<>> /\ job.pc = "none")

\* C16: batch mode lists every directory once; every listed file whose name
\* ends with ".h5" and does not start with "tmp" gets exactly one compression
\* attempt, no other file gets any (temp files of the run included), and an
\* attempt that fails leaves the rest of the walk as it was.
C16_BatchAttempts ==
    /\ [][once => BatchStep]_vars
    /\ [](once => \A p \in Paths : Touched(p) => (p \in ExtFiles /\ Matching(p.name)))

\* A finished batch run: the attempt on w/a.h5 failed and left its temp file,
\* the later attempt on s/b.h5 succeeded.
C16_Witness ==
    /\ once
    /\ mpc = "stopped"
    /\ <<"ERROR", FileA>> \in log
    /\ <<"DONE", FileB>> \in log
    /\ \E t \in JobTemps : t.dir = "w" /\ fs[t].kind = "file"

SerialStep ==
    /\ (job.pc # "none") => (job'.path = job.path \/ job' = NoJob)
    /\ (job.pc = "none" /\ job'.pc # "none") =>
          /\ obs = "idle" /\ obs' = "handling"
          /\ queue # <<>> /\ queue' = Tail(queue)
          /\ job'.path = Head(queue).src_path
          /\ job'.pc = "size1"
    /\ (obs = "handling") =>
          /\ Len(queue') >= Len(queue)
          /\ SubSeq(queue', 1, Len(queue)) = queue

\* C17: in watch mode the handler runs on the dispatch thread: a job starts
\* only when the thread is idle, the thread handles nothing else until the
\* job has returned (pending events stay queued in order), and a job in
\* flight is never replaced by a job of another path.
C17_OneJobInFlight ==
    /\ [][~once => SerialStep]_vars
    /\ [](~once => (obs = "handling" <=> job.pc # "none"))

\* The job of a.h5 is publishing while the creation event of b.h5 waits.
C17_Witness ==
    /\ ~once
    /\ job.path = FileA
    /\ job.pc = "move"
    /\ \E i \in 1..Len(queue) : queue[i] = CreatedEvent(FileB, FALSE)

ExternalCandidates == {p \in ExtFiles : Matching(p.name) /\ fs[p].kind # "none"}

Runs == {p \in Paths : Touched(p)}

\* C18: the events a job causes (creation of its temp file, rename onto the
\* original) start no job: only externally created candidates are accepted,
\* no creation event is pending for a path that was accepted before, and the
\* paths with a pipeline run are never more than the external candidates.
C18_NoSelfReaction ==
    ~once =>
      /\ accepted \subseteq ExternalCandidates
      /\ Runs \subseteq accepted
      /\ Cardinality(Runs) <= Cardinality(ExternalCandidates)
      /\ \A i \in 1..Len(queue) :
            IsCandidate(queue[i]) =>
              /\ queue[i].src_path \notin accepted
              /\ \A j \in 1..Len(queue) : queue[j] = queue[i] => j = i

\* a.h5 was replaced and the events of the temp file and of the rename have
\* been dispatched: the watcher is idle with nothing pending.
C18_Witness ==
    /\ ~once
    /\ <<"DONE", FileA>> \in log
    /\ accepted = {FileA}
    /\ fs[FileA].st = "new"
    /\ queue = <<>>
    /\ obs = "idle"

NoDeleteStep ==
    (job.pc \in CompressPcs /\ job' # job) =>
       \A p \in Paths :
          (fs[p].kind = "file" /\ fs'[p].kind # "file") =>
             /\ p = job.tmp
             /\ <<"DONE", job.path>> \in log'
             /\ fs'[job.path] = fs[job.tmp]

\* C19: a job removes no file (the publish alone makes the temp file
\* disappear, by moving it onto the original); after a failure that follows
\* the creation of the temp file, the temp file is still in the directory of
\* the original, and no file with the temp prefix is ever processed.
C19_TempLeftBehind ==
    /\ [][NoDeleteStep]_vars
    /\ [](\A p \in DataFiles :
            (<<"INFO", p>> \in log /\ <<"ERROR", p>> \in log) =>
               \E t \in JobTemps : t.dir = p.dir /\ fs[t].kind = "file" /\ ~Touched(t))
    /\ [](\A t \in Paths : HasTempPrefix(t.name) => (~Touched(t) /\ job.path # t))

\* The publish of a.h5 failed: the complete temp file is left next to the
\* original and the watcher has dropped its creation event.
C19_Witness ==
    /\ ~once
    /\ <<"ERROR", FileA>> \in log
    /\ fs[FileA].st = "orig"
    /\ \E t \in JobTemps : t.dir = "w" /\ fs[t].st = "new"
    /\ queue = <<>>
    /\ job.pc = "none"

====
